---- MODULE Spec2Model ----
(***************************************************************************)
(* A model of qa_engine.py: the question-answering orchestrator            *)
(* (generate_answer), its remote adapter and lazily initialised remote     *)
(* client, the process-wide pattern cache, and the local extraction and    *)
(* composition pipeline.                                                   *)
(*                                                                         *)
(* Python str values are TLA+ strings; a character is a string of length   *)
(* one.  The source's emoji and bullet characters are written as bracketed *)
(* ASCII tokens ("[books]"): each stands where one whitespace-delimited    *)
(* token stood, so str.split() counts are those of the source.             *)
(***************************************************************************)
EXTENDS Integers, Sequences, FiniteSets, TLC

VARIABLES
    _watsonx_client,  \* qa_engine.py:10  the module-level client handle
    _pattern_cache,   \* qa_engine.py:9   pattern string -> compiled matcher
    initAttempts,     \* history: client initialisation attempts so far
    initFailed,       \* history: some initialisation attempt has failed
    compiles,         \* history: pattern string -> number of re.compile calls
    returned,         \* history: pattern string -> matchers handed to callers
    req,              \* the (context, question) a pure-function run is applied to
    last,             \* the last completed top-level call and what it did
    pc,               \* per thread: position inside the call it is executing
    local             \* per thread: the call's arguments, locals and result

vars == <<_watsonx_client, _pattern_cache, initAttempts, initFailed, compiles,
          returned, req, last, pc, local>>

-----------------------------------------------------------------------------
(* Python values that are not strings.                                     *)

None == [type |-> "NoneType"]

Str(s) == [type |-> "str", val |-> s]

IsStr(v) == v.type = "str"

-----------------------------------------------------------------------------
(* Characters and the str methods the program uses.                        *)

Char(s, i) == SubSeq(s, i, i)

UpperAlphabet == "ABCDEFGHIJKLMNOPQRSTUVWXYZ"

LowerAlphabet == "abcdefghijklmnopqrstuvwxyz"

UpperLetters == {Char(UpperAlphabet, i) : i \in 1..26}

LowerLetters == {Char(LowerAlphabet, i) : i \in 1..26}

Letters == UpperLetters \cup LowerLetters

Digits == {"0", "1", "2", "3", "4", "5", "6", "7", "8", "9"}

WordChars == Letters \cup Digits \cup {"_"}

Whitespace == {" ", "\n", "\t", "\r", "\f"}

Terminators == {".", "!", "?"}

LowerOf == [c \in UpperLetters |->
              Char(LowerAlphabet, CHOOSE i \in 1..26 : Char(UpperAlphabet, i) = c)]

SetMin(S) == CHOOSE x \in S : \A y \in S : x <= y

SetMax(S) == -SetMin({-x : x \in S})

Range(seq) == {seq[k] : k \in 1..Len(seq)}

\* The elements of a finite set of integers, ascending; rank[x] is the number
\* of elements below x.
RankedSeq(S, rank) == [k \in 1..Cardinality(S) |-> CHOOSE x \in S : rank[x] = k - 1]

SortedSeq(S) == RankedSeq(S, [x \in S |-> Cardinality({y \in S : y < x})])

\* The elements of seq at the positions idx, and at the positions in a set,
\* in order (a list comprehension with a condition keeps the positions where
\* the condition holds).
Pick(seq, idx) == [j \in 1..Len(idx) |-> seq[idx[j]]]

SelectAt(seq, S) == Pick(seq, SortedSeq(S))

\* seq[:n]
Take(seq, n) == SubSeq(seq, 1, IF Len(seq) < n THEN Len(seq) ELSE n)

RECURSIVE lower(_)
lower(s) ==
    IF Len(s) = 0 THEN ""
    ELSE IF Len(s) = 1 THEN (IF s \in UpperLetters THEN LowerOf[s] ELSE s)
    ELSE lower(SubSeq(s, 1, Len(s) \div 2))
         \o lower(SubSeq(s, Len(s) \div 2 + 1, Len(s)))

\* s between the first and the last of the positions ink
Between(s, ink) == IF ink = {} THEN "" ELSE SubSeq(s, SetMin(ink), SetMax(ink))

strip(s) == Between(s, {i \in 1..Len(s) : Char(s, i) \notin Whitespace})

\* needle in haystack
contains(needle, haystack) ==
    \E i \in 1..(Len(haystack) - Len(needle) + 1) :
        SubSeq(haystack, i, i + Len(needle) - 1) = needle

\* len(s.split()): the number of maximal runs of non-whitespace
split_count(s) ==
    Cardinality({i \in 1..Len(s) :
        /\ Char(s, i) \notin Whitespace
        /\ (i = 1 \/ Char(s, i - 1) \in Whitespace)})

RECURSIVE join(_, _)
join(sep, parts) ==
    IF Len(parts) = 0 THEN ""
    ELSE IF Len(parts) = 1 THEN parts[1]
    ELSE parts[1] \o sep \o join(sep, Tail(parts))

\* str(i) for the list numbers the templates print
Digit(i) == Char("0123456789", i + 1)

-----------------------------------------------------------------------------
(* The regular expressions of the program, by what each matches.           *)

SENTENCE_SPLITTER == "[.!?]+"

WORD_PATTERN == "\\b[a-zA-Z]{4,}\\b"

\* The last position of the piece that runs up to the first of the stops
\* in later, or to position n when there is none.
EndBefore(n, later) == IF later = {} THEN n ELSE SetMin(later) - 1

\* The pieces of s that begin at starts, each running up to the next stop.
Pieces(s, starts, stops) ==
    [k \in 1..Len(starts) |->
        SubSeq(s, starts[k], EndBefore(Len(s), {j \in stops : j >= starts[k]}))]

\* The pieces between the maximal runs of the positions T.
SplitAt(s, T) ==
    Pieces(s, SortedSeq({1} \cup {i + 1 : i \in {j \in T : (j + 1) \notin T}}), T)

\* re.split(r'[.!?]+', s): the pieces between maximal terminator runs,
\* empty leading and trailing pieces included.
re_split(s) == SplitAt(s, {i \in 1..Len(s) : Char(s, i) \in Terminators})

IsWord(r) == Len(r) >= 4 /\ \A i \in 1..Len(r) : Char(r, i) \in Letters

WordsOf(runs) == SelectAt(runs, {k \in 1..Len(runs) : IsWord(runs[k])})

\* The maximal runs of positions outside NW.
RunsOutside(s, NW) ==
    Pieces(s, SortedSeq({i \in 1..Len(s) : i \notin NW /\ (i = 1 \/ (i - 1) \in NW)}), NW)

\* re.findall(r'\b[a-zA-Z]{4,}\b', s): a maximal run of word characters
\* matches when it is letters only and at least four long (a run holding a
\* digit or an underscore has no word boundary inside it).
re_findall_words(s) ==
    WordsOf(RunsOutside(s, {j \in 1..Len(s) : Char(s, j) \notin WordChars}))

\* The cue patterns are literals but for escaped dots: the text a cue matches.
RECURSIVE Unescape(_)
Unescape(p) ==
    IF Len(p) = 0 THEN ""
    ELSE IF Char(p, 1) = "\\" /\ Len(p) >= 2
         THEN Char(p, 2) \o Unescape(SubSeq(p, 3, Len(p)))
         ELSE Char(p, 1) \o Unescape(SubSeq(p, 2, Len(p)))

\* re.compile(cue, re.IGNORECASE).search(s) is not None
re_search(cue, s) == contains(lower(Unescape(cue)), lower(s))

-----------------------------------------------------------------------------
(* Term Extractor (extract_key_terms).                                     *)

KEY_STOP_WORDS ==
    {"this", "that", "these", "those", "which", "what", "when", "where",
     "who", "why", "how", "with", "from", "have", "has", "been", "were",
     "are", "and", "the", "for", "not", "but", "their", "will", "would",
     "should", "could", "about", "into", "through", "during", "before",
     "after", "above", "below", "upon", "under", "while", "until", "then",
     "than", "also", "more", "less", "most", "least"}

\* The positions where an item occurs for the first time.
FirstOccurrences(items) ==
    {k \in 1..Len(items) : \A j \in 1..(k - 1) : items[j] # items[k]}

Counts(items, first) ==
    [k \in first |-> Cardinality({j \in 1..Len(items) : items[j] = items[k]})]

\* The number of items that come before the one first seen at k: those of a
\* greater count, and those of the same count seen earlier.
Ranks(first, cnt) ==
    [k \in first |-> Cardinality({j \in first :
        \/ cnt[j] > cnt[k]
        \/ cnt[j] = cnt[k] /\ j < k})]

TopRanked(items, first, rank, n) ==
    [r \in 1..Cardinality({k \in first : rank[k] < n}) |->
        items[CHOOSE k \in first : rank[k] = r - 1]]

MostCommonOf(items, first, n) ==
    TopRanked(items, first, Ranks(first, Counts(items, first)), n)

\* [word for word, _ in Counter(items).most_common(n)]: by count,
\* descending, items of equal count in the order of their first occurrence.
most_common(items, n) == MostCommonOf(items, FirstOccurrences(items), n)

WithoutStopWords(words) ==
    SelectAt(words, {k \in 1..Len(words) : words[k] \notin KEY_STOP_WORDS})

extract_key_terms(text) ==
    most_common(WithoutStopWords(re_findall_words(lower(text))), 10)

-----------------------------------------------------------------------------
(* Sentence Selector (extract_relevant_sentences).                         *)

QUESTION_STOP_WORDS ==
    {"what", "when", "where", "who", "why", "how", "does", "could", "would", "should"}

StripAll(seq) == [k \in 1..Len(seq) |-> strip(seq[k])]

\* The sentences of the context, each stripped, in document order.
stripped_sentences(context) == StripAll(re_split(context))

\* set(word_pattern.findall(question.lower())) less the stop words
question_terms(question) ==
    Range(re_findall_words(lower(question))) \ QUESTION_STOP_WORDS

MatchingAnything(sents, terms) ==
    Take(SelectAt(sents, {k \in 1..Len(sents) : Len(sents[k]) > 30}), 8)

\* The loop of lines 251-259 over the stripped sentences: the sentences
\* longer than 30 holding a question term as a substring, appended in order
\* until eight are collected.
Matching(sents, terms) ==
    Take(SelectAt(sents, {k \in 1..Len(sents) :
                            /\ Len(sents[k]) > 30
                            /\ \E t \in terms : contains(t, lower(sents[k]))}), 8)

direct_matches(context, question) ==
    Matching(stripped_sentences(context), question_terms(question))

LongerThan(sents, n) == SelectAt(sents, {k \in 1..Len(sents) : Len(sents[k]) > n})

\* Line 263: the first six sentences longer than 40.
substantial_sentences(context) == Take(LongerThan(stripped_sentences(context), 40), 6)

\* Lines 262-265
OrSubstantialUncut(relevant_sentences, context) ==
    IF Len(relevant_sentences) = 0
    THEN substantial_sentences(context)
    ELSE relevant_sentences

OrSubstantial(relevant_sentences, context) ==
    Take(IF Len(relevant_sentences) = 0
         THEN substantial_sentences(context)
         ELSE relevant_sentences, 6)

extract_relevant_sentences(context, question) ==
    OrSubstantial(direct_matches(context, question), context)

-----------------------------------------------------------------------------
(* Definition and Example Extractors.                                      *)

definition_patterns ==
    <<"is defined as", "refers to", "means that", "is called",
      "known as", "can be defined", "is essentially", "is described as">>

example_patterns ==
    <<"for example", "such as", "for instance", "including",
      "like", "e\\.g\\.", "as in", "case study">>

Cued(sents, patterns, min_len) ==
    SelectAt(sents, {k \in 1..Len(sents) :
                       /\ Len(sents[k]) > min_len
                       /\ \E i \in 1..Len(patterns) : re_search(patterns[i], sents[k])})

\* The loop shared by both extractors: sentences longer than min_len that
\* some cue matches, in order, until cap are collected.
cue_sentences(context, patterns, min_len, cap) ==
    Take(Cued(stripped_sentences(context), patterns, min_len), cap)

extract_definitions(context) == cue_sentences(context, definition_patterns, 20, 3)

extract_examples(context) == cue_sentences(context, example_patterns, 30, 2)

-----------------------------------------------------------------------------
(* Answer Composer and No-Match Composer: the templates.                   *)

\* The items numbered from i on, each between its label and its ending.
RECURSIVE numbered(_, _, _, _)
numbered(items, i, before, after) ==
    IF i > Len(items) THEN <<>>
    ELSE <<before[1] \o Digit(i) \o before[2] \o items[i] \o after>>
         \o numbered(items, i + 1, before, after)

emphasized(terms) == [k \in 1..Len(terms) |-> "**" \o terms[k] \o "**"]

format_key_topics(context) ==
    join("\n", numbered(Take(LongerThan(stripped_sentences(context), 50), 4),
                        1, <<"", ". **">>, "**"))

InsightsFor(key_terms) ==
    "\n\n## [magnifier] Additional Insights:\n\n"
    \o "Based on the context, consider these points:\n\n"
    \o "- The material emphasizes practical applications\n"
    \o "- Key terminology suggests fundamental concepts\n"
    \o "- Content builds on previous knowledge\n\n"
    \o "## [books] Recommended Next Steps:\n\n"
    \o "1. Create flashcards for: "
    \o (IF Len(key_terms) > 0 THEN join(", ", key_terms) ELSE "key terms")
    \o "\n2. Summarize main sections\n"
    \o "3. Identify conceptual connections\n"
    \o "4. Practice explaining concepts"

generate_additional_insights(context, question) ==
    InsightsFor(Take(extract_key_terms(context), 3))

generate_comprehensive_fallback(context, question, key_terms) ==
    "# [books] Comprehensive Analysis: " \o question \o "\n\n"
    \o "## [magnifier] Overview of Your Study Material:\n\n"
    \o "The content primarily focuses on **"
    \o (IF Len(key_terms) > 0 THEN join(", ", Take(key_terms, 3)) ELSE "key concepts")
    \o "**. While I couldn't find direct information about \"" \o question
    \o "\", here's what the material covers:\n\n"
    \o "## [open-book] Main Topics Discussed:\n\n"
    \o format_key_topics(context) \o "\n\n"
    \o "## [target] Suggested Study Approach:\n\n"
    \o "1. **Review foundational concepts** related to the main topics\n"
    \o "2. **Look for connections** between different concepts\n"
    \o "3. **Examine practical applications** mentioned\n"
    \o "4. **Note definitions and terminology** used\n\n"
    \o "## [bulb] Potential Related Questions:\n\n"
    \o "- How does " \o question \o " relate to the main concepts?\n"
    \o "- What applications might " \o question \o " have in this context?\n\n"
    \o "## [memo] Recommendation:\n\n"
    \o "Review sections discussing related concepts for indirect references to \""
    \o question \o "\"."

\* Lines 147-190: the parts of the answer, joined.
FindingsText(question, key_terms, relevant_sentences, definitions, examples) ==
    "# [books] Comprehensive Analysis: " \o question \o "\n\n"
    \o "## [magnifier] Key Findings from Your Study Material:\n\n"
    \o join("", numbered(Take(relevant_sentences, 6), 1, <<"**", ". ">>, "**\n\n"))
    \o (IF Len(definitions) > 0
        THEN "\n## [open-book] Important Definitions:\n\n"
             \o join("", numbered(Take(definitions, 3), 1,
                                  <<"**Definition ", ":** ">>, "\n\n"))
        ELSE "")
    \o (IF Len(examples) > 0
        THEN "\n## [bulb] Practical Examples:\n\n"
             \o join("", numbered(Take(examples, 2), 1,
                                  <<"**Example ", ":** ">>, "\n\n"))
        ELSE "")
    \o (IF Len(key_terms) > 0
        THEN "\n## [target] Key Related Concepts:\n\n"
             \o join(", ", emphasized(Take(key_terms, 5))) \o "\n\n"
        ELSE "")
    \o "\n## [memo] Study Recommendations:\n\n"
    \o "1. **Focus on understanding** the relationships between "
    \o (IF Len(key_terms) > 0 THEN join(", ", Take(key_terms, 2))
        ELSE "these concepts")
    \o "\n2. **Review the definitions** and how they apply to different contexts\n"
    \o "3. **Practice with examples** to reinforce your understanding\n"
    \o "4. **Connect these concepts** to broader topics in your field\n\n"
    \o "## [thought] Further Exploration:\n\n"
    \o "For deeper understanding, consider researching how these concepts "
    \o "relate to real-world applications."

\* Lines 192-196
WithMinimumLength(answer, context, question) ==
    IF split_count(answer) < 150
    THEN answer \o generate_additional_insights(context, question)
    ELSE answer

\* Lines 143-196: the answer built from a non-empty list of relevant sentences.
compose_findings(context, question, key_terms, relevant_sentences) ==
    WithMinimumLength(
        FindingsText(question, key_terms, relevant_sentences,
                     IF Len(relevant_sentences) < 6
                     THEN extract_definitions(context) ELSE <<>>,
                     IF Len(relevant_sentences) < 8
                     THEN extract_examples(context) ELSE <<>>),
        context, question)

-----------------------------------------------------------------------------
(* Pattern Cache (get_cached_pattern).                                     *)

PatternList == <<SENTENCE_SPLITTER, WORD_PATTERN>> \o definition_patterns \o example_patterns

AllPatterns == {PatternList[i] : i \in 1..Len(PatternList)}

\* re.compile(pattern, re.IGNORECASE) makes a matcher object; its identity
\* is the pattern and which compilation of that pattern made it.
re_compile(pattern, earlier) == [pattern |-> pattern, id |-> earlier + 1]

\* The cache with its history: mem.cache is _pattern_cache.
Mem(cache, n, r) == [cache |-> cache, compiles |-> n, returned |-> r]

\* cache[pattern] = matcher
Stored(cache, pattern, matcher) ==
    [p \in DOMAIN cache \cup {pattern} |-> IF p = pattern THEN matcher ELSE cache[p]]

\* The call returns cache1[pattern]; compiled tells whether it called re.compile.
Fetched(mem, pattern, cache1, compiled) ==
    Mem(cache1,
        IF compiled THEN [mem.compiles EXCEPT ![pattern] = @ + 1] ELSE mem.compiles,
        [mem.returned EXCEPT ![pattern] = @ \cup {cache1[pattern]}])

get_cached_pattern_always_compiles(mem, pattern) ==
    Fetched(mem, pattern,
            Stored(mem.cache, pattern, re_compile(pattern, mem.compiles[pattern])),
            TRUE)

\* Lines 41-43 on mem.
get_cached_pattern(mem, pattern) ==
    Fetched(mem, pattern,
            IF pattern \notin DOMAIN mem.cache
            THEN Stored(mem.cache, pattern, re_compile(pattern, mem.compiles[pattern]))
            ELSE mem.cache,
            pattern \notin DOMAIN mem.cache)

\* get_cached_pattern for each pattern of a list, in order
RECURSIVE request_patterns(_, _)
request_patterns(mem, patterns) ==
    IF Len(patterns) = 0 THEN mem
    ELSE request_patterns(get_cached_pattern(mem, patterns[1]), Tail(patterns))

-----------------------------------------------------------------------------
(* Answer Composer (generate_detailed_answer).                             *)

py_str(v) == IF IsStr(v) THEN v.val ELSE "None"

\* What generate_detailed_answer does apart from the cache: how it ends, the
\* patterns it asks the cache for, in order, and the composers it ran.
Composed(context, question, key_terms, relevant_sentences) ==
    IF Len(relevant_sentences) = 0
    THEN [kind |-> "return",
          val |-> generate_comprehensive_fallback(context, question, key_terms),
          patterns |-> <<SENTENCE_SPLITTER, WORD_PATTERN>>,
          trace |-> <<"generate_detailed_answer", "generate_comprehensive_fallback">>]
    ELSE [kind |-> "return",
          val |-> compose_findings(context, question, key_terms, relevant_sentences),
          patterns |-> <<SENTENCE_SPLITTER, WORD_PATTERN>>
                       \o (IF Len(relevant_sentences) < 6
                           THEN definition_patterns ELSE <<>>)
                       \o (IF Len(relevant_sentences) < 8
                           THEN example_patterns ELSE <<>>),
          trace |-> <<"generate_detailed_answer">>]

\* question.lower() on a question that is no string raises in
\* extract_relevant_sentences, after the two patterns of lines 239-240 were
\* requested.
detailed_answer(context, question) ==
    IF ~IsStr(question)
    THEN [kind |-> "raise",
          val |-> "'NoneType' object has no attribute 'lower'",
          patterns |-> <<SENTENCE_SPLITTER, WORD_PATTERN>>,
          trace |-> <<"generate_detailed_answer">>]
    ELSE Composed(context, question.val, extract_key_terms(context),
                  extract_relevant_sentences(context, question.val))

-----------------------------------------------------------------------------
(* Remote client (get_watsonx_client) and Remote Generation Adapter.       *)

\* How one initialisation attempt can go: Credentials(...) raises,
\* APIClient(credentials) raises, the project_id assignment raises, or none.
InitOutcomes == {"credentials_error", "client_error", "project_id_error", "ok"}

\* How the remote call can go: text_generation.create raises, the response
\* has no results[0].generated_text, or it carries generated text.
RemoteOutcomes ==
    {[kind |-> "error", text |-> ""],
     [kind |-> "malformed", text |-> ""],
     [kind |-> "text", text |-> "Plants turn light into sugar."]}

APIClient(n) == [type |-> "APIClient", id |-> n]

\* Lines 15-37.  attempts is the number of initialisation attempts made
\* before this call; init is how an attempt made now goes.
get_watsonx_client_gives_up(client, attempts, init) ==
    IF client = None /\ attempts = 0
    THEN [client |-> IF init = "ok" THEN APIClient(attempts + 1) ELSE None,
          attempted |-> TRUE, failed |-> init # "ok",
          trace |-> IF init = "credentials_error"
                    THEN <<"Credentials">> ELSE <<"Credentials", "APIClient">>]
    ELSE [client |-> client, attempted |-> FALSE, failed |-> FALSE, trace |-> <<>>]

get_watsonx_client(client, attempts, init) ==
    IF client = None
    THEN [client |-> IF init = "ok" THEN APIClient(attempts + 1) ELSE None,
          attempted |-> TRUE, failed |-> init # "ok",
          trace |-> IF init = "credentials_error"
                    THEN <<"Credentials">> ELSE <<"Credentials", "APIClient">>]
    ELSE [client |-> client, attempted |-> FALSE, failed |-> FALSE, trace |-> <<>>]

format_watsonx_answer(answer_text, question) ==
    "# [books] Comprehensive Analysis: " \o py_str(question) \o "\n\n"
    \o "## [magnifier] Answer from Your Study Material:\n\n"
    \o answer_text \o "\n\n"
    \o "## [bulb] Study Tips:\n\n"
    \o "[bullet] **Review key concepts** mentioned in the answer\n"
    \o "[bullet] **Create flashcards** for important terms\n"
    \o "[bullet] **Practice explaining** these concepts in your own words\n"
    \o "[bullet] **Connect this information** to what you already know\n\n"
    \o "*Generated using IBM Watsonx with Mixtral-8x7B-Instruct model*"

\* Lines 89-113, with a client at hand: one text_generation.create call; any
\* exception is printed and None returned.
remote_generation_surfaces_error(remote, question) ==
    [ret |-> IF remote.kind = "text"
             THEN Str(format_watsonx_answer(remote.text, question))
             ELSE Str("Watsonx API error: " \o remote.kind),
     trace |-> <<"text_generation.create">>]

remote_generation_retries(remote, question) ==
    [ret |-> IF remote.kind = "text"
             THEN Str(format_watsonx_answer(remote.text, question))
             ELSE None,
     trace |-> IF remote.kind = "text"
               THEN <<"text_generation.create">>
               ELSE <<"text_generation.create", "text_generation.create">>]

remote_generation(remote, question) ==
    [ret |-> IF remote.kind = "text"
             THEN Str(format_watsonx_answer(remote.text, question))
             ELSE None,
     trace |-> <<"text_generation.create">>]

\* Lines 70-113: got is what get_watsonx_client gave, gen what the remote
\* call gives when it is made.
adapter_result(got, gen) ==
    IF got.client = None
    THEN [ret |-> None, got |-> got, trace |-> got.trace]
    ELSE [ret |-> gen.ret, got |-> got, trace |-> got.trace \o gen.trace]

generate_watsonx_answer(client, attempts, context, question, init, remote) ==
    adapter_result(get_watsonx_client(client, attempts, init),
                   remote_generation(remote, question))

-----------------------------------------------------------------------------
(* Orchestrator (generate_answer).                                         *)

INSUFFICIENT_TEXT ==
    "I couldn't extract enough text from the PDF to answer your question. "
    \o "Please try with a different PDF or ensure the document contains readable text."

\* "\n".join(context_chunks[:3]) raises TypeError on an item that is no str.
joinable(context_chunks) ==
    \A i \in 1..Len(Take(context_chunks, 3)) : IsStr(context_chunks[i])

Vals(values) == [i \in 1..Len(values) |-> values[i].val]

joined(context_chunks) == join("\n", Vals(Take(context_chunks, 3)))

\* Line 53
insufficient_without_strip(context) == Len(context) < 50

insufficient(context) == context = "" \/ Len(strip(context)) < 50

\* if watsonx_answer:
truthy(v) == IsStr(v) /\ v.val # ""

-----------------------------------------------------------------------------
(* The calls the model makes.                                              *)

PHOTOSYNTHESIS ==
    "Photosynthesis is defined as the process by which plants convert light into energy. "
    \o "For example, sunflowers track the sun."

MITOCHONDRIA == "The mitochondria produce most of the energy inside a cell."

SHORT_SENTENCES ==
    "Cells divide. Leaves are green. Water moves up the stem. Roots hold soil."

SHORT_TEXT == "Short text."

\* 49 characters
CHLOROPHYLL == "Chlorophyll absorbs light and makes leaves green."

PADDED == "  " \o CHLOROPHYLL \o " \n"

Questions == {Str("What is photosynthesis?"), Str("How does it work"), None}

ChunkLists ==
    {<<>>,
     <<Str(SHORT_TEXT)>>,
     <<Str(PADDED)>>,
     <<Str(CHLOROPHYLL), Str("")>>,
     <<Str(CHLOROPHYLL), Str("!")>>,
     <<Str(SHORT_TEXT), Str(SHORT_TEXT), Str(SHORT_TEXT), Str(PHOTOSYNTHESIS)>>,
     <<Str(SHORT_TEXT), Str(SHORT_TEXT), Str(SHORT_TEXT), None>>,
     <<Str(PHOTOSYNTHESIS)>>,
     <<Str(MITOCHONDRIA)>>,
     <<Str(SHORT_SENTENCES)>>,
     <<Str(PHOTOSYNTHESIS), None>>}

\* detailed_answer on the contexts and questions above, evaluated once.
DetailedAnswers ==
    [in \in {<<joined(cl), q>> :
                cl \in {l \in ChunkLists : joinable(l) /\ ~insufficient(joined(l))},
                q \in Questions}
        |-> detailed_answer(in[1], in[2])]

\* Lines 135-196 on mem: the answer r with the patterns it asked for cached.
with_patterns(mem, r) ==
    [kind |-> r.kind, val |-> r.val, trace |-> r.trace,
     mem |-> request_patterns(mem, r.patterns)]

generate_detailed_answer(mem, context, question) ==
    with_patterns(mem, IF <<context, question>> \in DOMAIN DetailedAnswers
                       THEN DetailedAnswers[<<context, question>>]
                       ELSE detailed_answer(context, question))

\* How a call of generate_answer ends (a returned string or a raised
\* exception), with the state it leaves and the calls it made.
Outcome(kind, val, got, mem, watsonx_answer, trace) ==
    [result |-> [kind |-> kind, val |-> val], got |-> got, mem |-> mem,
     watsonx_answer |-> watsonx_answer, trace |-> trace]

NoInit(client) ==
    [client |-> client, attempted |-> FALSE, failed |-> FALSE, trace |-> <<>>]

\* Lines 63-66: the local answer da, or the error string for what it raised.
local_answer(wx, da) ==
    Outcome("return",
            IF da.kind = "raise"
            THEN "Error processing your question: " \o da.val ELSE da.val,
            wx.got, da.mem, wx.ret, wx.trace \o da.trace)

\* Lines 58-63: wx is what generate_watsonx_answer gave, da what
\* generate_detailed_answer gives when it is called.
remote_else_local(wx, da, mem) ==
    IF truthy(wx.ret)
    THEN Outcome("return", wx.ret.val, wx.got, mem, wx.ret, wx.trace)
    ELSE local_answer(wx, da)

\* Lines 50-66.
generate_answer(client, attempts, mem, context_chunks, question, init, remote) ==
    IF ~joinable(context_chunks)
    THEN Outcome("raise", "TypeError", NoInit(client), mem, None, <<>>)
    ELSE IF insufficient(joined(context_chunks))
    THEN Outcome("return", INSUFFICIENT_TEXT, NoInit(client), mem, None, <<>>)
    ELSE remote_else_local(
             generate_watsonx_answer(client, attempts, joined(context_chunks),
                                     question, init, remote),
             generate_detailed_answer(mem, joined(context_chunks), question),
             mem)

-----------------------------------------------------------------------------
(* The process: calls made one after another.                              *)

MaxInitAttempts == 2

NumThreads == 2

Threads == 1..NumThreads

Idle == [call |-> "none"]

InitState ==
    /\ _watsonx_client = None
    /\ _pattern_cache = <<>>
    /\ initAttempts = 0
    /\ initFailed = FALSE
    /\ compiles = [p \in AllPatterns |-> 0]
    /\ returned = [p \in AllPatterns |-> {}]
    /\ last = [op |-> "none"]
    /\ pc = [t \in Threads |-> "idle"]
    /\ local = [t \in Threads |-> Idle]

Init == InitState /\ req = None

\* The environment answers only when asked: an initialisation outcome when
\* the call reaches get_watsonx_client with the client unset, a remote
\* outcome when it reaches text_generation.create.
Unused == [kind |-> "unused", text |-> ""]

reaches_remote(context_chunks) ==
    joinable(context_chunks) /\ ~insufficient(joined(context_chunks))

\* The state after a generate_answer call that ended as out.
AfterGenerateAnswer(out, context_chunks, question, remote) ==
    /\ out.got.attempted => initAttempts < MaxInitAttempts
    /\ _watsonx_client' = out.got.client
    /\ initAttempts' = initAttempts + (IF out.got.attempted THEN 1 ELSE 0)
    /\ initFailed' = (initFailed \/ out.got.failed)
    /\ _pattern_cache' = out.mem.cache
    /\ compiles' = out.mem.compiles
    /\ returned' = out.mem.returned
    /\ last' = [op |-> "generate_answer",
                context_chunks |-> context_chunks, question |-> question,
                remote |-> remote, result |-> out.result,
                watsonx_answer |-> out.watsonx_answer, trace |-> out.trace,
                client_before |-> _watsonx_client,
                failed_before |-> initFailed]
    /\ UNCHANGED <<req, pc, local>>

CallGenerateAnswer ==
    \E context_chunks \in ChunkLists, question \in Questions :
    \E init \in IF reaches_remote(context_chunks) /\ _watsonx_client = None
                THEN InitOutcomes ELSE {"unused"} :
    \E remote \in IF reaches_remote(context_chunks)
                     /\ (_watsonx_client # None \/ init = "ok")
                  THEN RemoteOutcomes ELSE {Unused} :
        AfterGenerateAnswer(
            generate_answer(_watsonx_client, initAttempts,
                            Mem(_pattern_cache, compiles, returned),
                            context_chunks, question, init, remote),
            context_chunks, question, remote)

\* The state after a get_watsonx_client call that ended as got.
AfterGetWatsonxClient(got) ==
    /\ got.attempted => initAttempts < MaxInitAttempts
    /\ _watsonx_client' = got.client
    /\ initAttempts' = initAttempts + (IF got.attempted THEN 1 ELSE 0)
    /\ initFailed' = (initFailed \/ got.failed)
    /\ last' = [op |-> "get_watsonx_client", result |-> got.client,
                trace |-> got.trace,
                client_before |-> _watsonx_client,
                failed_before |-> initFailed]
    /\ UNCHANGED <<_pattern_cache, compiles, returned, req, pc, local>>

CallGetWatsonxClient ==
    \E init \in IF _watsonx_client = None THEN InitOutcomes ELSE {"unused"} :
        AfterGetWatsonxClient(get_watsonx_client(_watsonx_client, initAttempts, init))

Next == CallGenerateAnswer \/ CallGetWatsonxClient

Spec == Init /\ [][Next]_vars

-----------------------------------------------------------------------------
(* Properties of the orchestrator and the remote client, under Spec.       *)

Count(trace, event) == Cardinality({i \in 1..Len(trace) : trace[i] = event})

InitEvents == {"Credentials", "APIClient"}

\* The last call was a generate_answer call whose chunks could be joined.
Answered == last.op = "generate_answer" /\ joinable(last.context_chunks)

\* The last call came to get_watsonx_client.
CameToClient ==
    \/ last.op = "get_watsonx_client"
    \/ last.op = "generate_answer" /\ reaches_remote(last.context_chunks)

\* C1: whenever the first three chunks, joined with newlines and stripped,
\* are shorter than 50, generate_answer returns the fixed insufficient-text
\* message whatever the question, and made no call on the way: no client
\* initialisation, no remote generation call, no Answer Composer; the client
\* handle and the pattern cache are as they were.
C1_InsufficientTextMessage ==
    (Answered /\ Len(strip(joined(last.context_chunks))) < 50)
    => /\ last.result = [kind |-> "return", val |-> INSUFFICIENT_TEXT]
       /\ last.trace = <<>>
       /\ _watsonx_client = last.client_before

\* C1's case: a context of 50 characters or more that only stripping makes
\* too short, answered with the message.
C1_Witness ==
    /\ Answered
    /\ Len(joined(last.context_chunks)) >= 50
    /\ Len(strip(joined(last.context_chunks))) < 50
    /\ last.result.val = INSUFFICIENT_TEXT

\* C2: generate_answer never raises: every call ends by returning a string.
C2_NeverRaises ==
    last.op = "generate_answer" => last.result.kind = "return"

RemoteAbsent ==
    /\ last.op = "generate_answer"
    /\ reaches_remote(last.context_chunks)
    /\ (_watsonx_client = None \/ last.remote.kind \in {"error", "malformed"})

\* C4: for a context of stripped length 50 or more, whenever the remote
\* adapter yields absent, generate_answer returns exactly the string the
\* Answer Composer returns for the same context and question, and the remote
\* failure is not in it.
C4_LocalAnswerWhenRemoteAbsent ==
    (RemoteAbsent
        /\ detailed_answer(joined(last.context_chunks), last.question).kind = "return")
    => /\ last.result =
             [kind |-> "return",
              val |-> detailed_answer(joined(last.context_chunks), last.question).val]
       /\ ~contains("Watsonx API error", last.result.val)

\* C4's case: the client is set, the remote call fails, the answer is local.
C4_Witness ==
    /\ RemoteAbsent
    /\ _watsonx_client # None
    /\ last.remote.kind = "error"
    /\ IsStr(last.question)
    /\ Count(last.trace, "generate_detailed_answer") = 1

\* C5: one generate_answer call makes the remote generation call at most
\* once; when that call fails, the very next step is the Answer Composer, and
\* no remote call follows.
C5_NoRemoteRetry ==
    last.op = "generate_answer"
    => /\ Count(last.trace, "text_generation.create") <= 1
       /\ \A i \in 1..Len(last.trace) :
             (last.trace[i] = "text_generation.create" /\ last.remote.kind # "text")
             => /\ i < Len(last.trace)
                /\ last.trace[i + 1] = "generate_detailed_answer"
                /\ \A j \in (i + 1)..Len(last.trace) :
                      last.trace[j] # "text_generation.create"

\* C5's case: the remote call was made and failed.
C5_Witness ==
    /\ last.op = "generate_answer"
    /\ Count(last.trace, "text_generation.create") = 1
    /\ last.remote.kind = "malformed"

-----------------------------------------------------------------------------
(* The pattern cache called directly, under SpecCache.                      *)

\* How many of the program's patterns the callers ask for.
MaxPatterns == 6

RequestedPatterns == {PatternList[i] : i \in 1..MaxPatterns}

\* The state after a get_cached_pattern(pattern) call that left mem.
AfterGetCachedPattern(mem, pattern) ==
    /\ _pattern_cache' = mem.cache
    /\ compiles' = mem.compiles
    /\ returned' = mem.returned
    /\ last' = [op |-> "get_cached_pattern", pattern |-> pattern,
                result |-> mem.cache[pattern],
                compiled |-> mem.compiles[pattern] > compiles[pattern]]
    /\ UNCHANGED <<_watsonx_client, initAttempts, initFailed, req, pc, local>>

CallGetCachedPattern ==
    \E pattern \in RequestedPatterns :
        AfterGetCachedPattern(
            get_cached_pattern(Mem(_pattern_cache, compiles, returned), pattern),
            pattern)

NextCache == CallGetCachedPattern

SpecCache == Init /\ [][NextCache]_vars

\* C6: after any sequence of get_cached_pattern calls, every pattern has been
\* compiled at most once (on its first request, which is when it entered the
\* cache), all calls with one pattern returned one and the same matcher, and
\* that matcher is the one still in the cache.
C6_OneMatcherPerPattern ==
    \A pattern \in AllPatterns :
        /\ compiles[pattern] <= 1
        /\ pattern \in DOMAIN _pattern_cache <=> compiles[pattern] = 1
        /\ returned[pattern] # {} => pattern \in DOMAIN _pattern_cache
        /\ pattern \in DOMAIN _pattern_cache =>
              returned[pattern] = {_pattern_cache[pattern]}

\* C6's case: a pattern asked for again while other patterns are cached too,
\* served from the cache without compiling.
C6_Witness ==
    /\ last.op = "get_cached_pattern"
    /\ ~last.compiled
    /\ returned[last.pattern] = {last.result}
    /\ Cardinality(DOMAIN _pattern_cache) >= 3

-----------------------------------------------------------------------------
(* The Sentence Selector on generated contexts, under SpecExtract.          *)

\* The longest context, in sentences.
MaxSentences == 9

\* Sentences by kind; the number makes every sentence of a context distinct.
\*   "M49", "M32", "M22": name photosynthesis, of length 49, 32 and 22
\*   "U45", "U34": name mitochondria, of length 45 and 34
Sentence(kind, i) ==
    CASE kind = "M49" -> "Photosynthesis stage " \o Digit(i % 10) \o " converts light into energy"
      [] kind = "M32" -> "Photosynthesis " \o Digit(i % 10) \o " feeds the plant"
      [] kind = "M22" -> "Photosynthesis " \o Digit(i % 10) \o " works"
      [] kind = "U45" -> "Mitochondria number " \o Digit(i % 10) \o " release energy in cells"
      [] kind = "U34" -> "Mitochondria " \o Digit(i % 10) \o " make energy in cell"

\* The kinds a context cycles through.
Mixes ==
    {<<"M49">>, <<"M32", "M49">>, <<"M32", "M22">>, <<"M49", "U45", "M32", "U34", "M22">>,
     <<"U45", "U34">>, <<"U45">>, <<"M22", "U34">>}

Sentences(mix, n) == [i \in 1..n |-> Sentence(mix[((i - 1) % Len(mix)) + 1], i)]

\* What ends the i-th sentence in the text.
Terminator(i) ==
    CASE i % 4 = 1 -> ". "
      [] i % 4 = 2 -> "!  "
      [] i % 4 = 3 -> "?!\n"
      [] i % 4 = 0 -> "... "

RECURSIVE Text(_, _)
Text(sentences, i) ==
    IF i > Len(sentences) THEN ""
    ELSE sentences[i] \o Terminator(i) \o Text(sentences, i + 1)

Request(sentences, question) ==
    [context |-> Text(sentences, 1), question |-> question, sentences |-> sentences]

SelectorQuestions == {"What is photosynthesis?", "How do mitochondria work?", "Why?"}

PHOTOSYNTHESIS_SENTENCES ==
    <<"Photosynthesis is defined as the process by which plants convert light into energy",
      "For example, sunflowers track the sun">>

PhotosynthesisRequest ==
    [context |-> PHOTOSYNTHESIS, question |-> "What is photosynthesis?",
     sentences |-> PHOTOSYNTHESIS_SENTENCES]

Requests ==
    {Request(Sentences(mix, n), question) :
        mix \in Mixes, n \in 0..MaxSentences, question \in SelectorQuestions}
    \cup {PhotosynthesisRequest}

InitExtract == InitState /\ req \in Requests

\* The state after extract_relevant_sentences(req.context, req.question)
\* returned result.
AfterExtractRelevantSentences(result) ==
    /\ last' = [op |-> "extract_relevant_sentences", result |-> result]
    /\ UNCHANGED <<_watsonx_client, _pattern_cache, initAttempts, initFailed,
                   compiles, returned, req, pc, local>>

CallExtractRelevantSentences ==
    AfterExtractRelevantSentences(extract_relevant_sentences(req.context, req.question))

\* The state after generate_detailed_answer(req.context, req.question) ended as r.
AfterGenerateDetailedAnswer(r) ==
    /\ _pattern_cache' = r.mem.cache
    /\ compiles' = r.mem.compiles
    /\ returned' = r.mem.returned
    /\ last' = [op |-> "generate_detailed_answer",
                result |-> [kind |-> r.kind, val |-> r.val], trace |-> r.trace]
    /\ UNCHANGED <<_watsonx_client, initAttempts, initFailed, req, pc, local>>

CallGenerateDetailedAnswer ==
    AfterGenerateDetailedAnswer(
        generate_detailed_answer(Mem(_pattern_cache, compiles, returned),
                                 req.context, Str(req.question)))

NextExtract == CallExtractRelevantSentences \/ CallGenerateDetailedAnswer

SpecExtract == InitExtract /\ [][NextExtract]_vars

\* The sentence holds one of the question's search terms.
HasTerm(sentence, question) ==
    \E t \in question_terms(question) : contains(t, lower(sentence))

\* Where the sentences longer than n holding a search term are.
QualifiedAt(sentences, question, n) ==
    {k \in 1..Len(sentences) : Len(sentences[k]) > n /\ HasTerm(sentences[k], question)}

Position(sentences, sentence) ==
    CHOOSE k \in 1..Len(sentences) : sentences[k] = sentence

InDocumentOrder(result, sentences) ==
    /\ \A i \in 1..Len(result) : result[i] \in Range(sentences)
    /\ \A i, j \in 1..Len(result) :
          i < j => Position(sentences, result[i]) < Position(sentences, result[j])

AllLongerThan(result, n) == \A i \in 1..Len(result) : Len(result[i]) > n

\* What C7 says of the sentences returned for the request.
AtMostSixInOrder(result, sentences, question) ==
    /\ Len(result) <= 6
    /\ InDocumentOrder(result, sentences)
    /\ QualifiedAt(sentences, question, 0) # {} => AllLongerThan(result, 30)
    /\ QualifiedAt(sentences, question, 30) = {} => AllLongerThan(result, 40)
    /\ QualifiedAt(sentences, question, 30) # {} =>
          result = Take(SelectAt(sentences, QualifiedAt(sentences, question, 30)), 6)

\* C7: extract_relevant_sentences returns at most 6 sentences, in document
\* order; all of them are longer than 30 when some sentence holds a question
\* term, and longer than 40 on the zero-match path; when sentences matched,
\* the result is the first 6 of the matching sentences longer than 30.
C7_AtMostSixSentences ==
    last.op = "extract_relevant_sentences"
    => AtMostSixInOrder(last.result, req.sentences, req.question)

\* C7's case: eight or more sentences match, six are returned, one of them
\* no longer than 40.
C7_Witness ==
    /\ last.op = "extract_relevant_sentences"
    /\ Cardinality(QualifiedAt(req.sentences, req.question, 30)) >= 8
    /\ Len(last.result) = 6
    /\ ~AllLongerThan(last.result, 40)

\* C8: when no sentence of the context holds a question term,
\* extract_relevant_sentences returns the first six sentences longer than 40
\* and generate_detailed_answer delegates to generate_comprehensive_fallback
\* and returns what it returns.
C8_NoMatchDelegates ==
    (last.op = "generate_detailed_answer"
        /\ QualifiedAt(req.sentences, req.question, 0) = {})
    => /\ extract_relevant_sentences(req.context, req.question)
             = Take(LongerThan(req.sentences, 40), 6)
       /\ Count(last.trace, "generate_comprehensive_fallback") = 1
       /\ last.result =
             [kind |-> "return",
              val |-> generate_comprehensive_fallback(
                          req.context, req.question, extract_key_terms(req.context))]

\* The request is the photosynthesis example and the Sentence Selector has
\* answered it.
PhotosynthesisSelected ==
    /\ req = PhotosynthesisRequest
    /\ last.op = "extract_relevant_sentences"

\* C9 as stated: for the photosynthesis example the Sentence Selector returns
\* both sentences of the context, each holding a question term.
C9_BothSentences ==
    PhotosynthesisSelected
    => /\ last.result = PHOTOSYNTHESIS_SENTENCES
       /\ \A i \in 1..2 : HasTerm(PHOTOSYNTHESIS_SENTENCES[i], req.question)

\* C9 as amended: for the photosynthesis example the Sentence Selector
\* returns the first sentence only; the only search term of the question is
\* "photosynthesis", which the second sentence does not hold.
C9_FirstSentenceOnly ==
    PhotosynthesisSelected
    => /\ last.result = <<PHOTOSYNTHESIS_SENTENCES[1]>>
       /\ question_terms(req.question) = {"photosynthesis"}
       /\ ~HasTerm(PHOTOSYNTHESIS_SENTENCES[2], req.question)

\* C9's case: the example has been answered, with a sentence.
C9_Witness ==
    /\ PhotosynthesisSelected
    /\ Len(last.result) >= 1
    /\ last.result[1] = PHOTOSYNTHESIS_SENTENCES[1]

-----------------------------------------------------------------------------
(* get_cached_pattern and get_watsonx_client called from several threads,   *)
(* under SpecConc.  A thread runs one call at a time; pc[t] is the line it  *)
(* is at, local[t] its arguments and locals.  Neither function takes a      *)
(* lock, so the threads' steps interleave freely.                           *)

\* The patterns the threads ask for.
ConcurrentPatterns == {SENTENCE_SPLITTER, WORD_PATTERN}

\* What the callers have seen: the clients whose initialisation ran to the
\* end of the try block, and the clients returned to callers.
Seen(initialized, observed) ==
    [op |-> "threads", initialized |-> initialized, observed |-> observed]

InitConc ==
    /\ _watsonx_client = None
    /\ _pattern_cache = <<>>
    /\ initAttempts = 0
    /\ initFailed = FALSE
    /\ compiles = [p \in AllPatterns |-> 0]
    /\ returned = [p \in AllPatterns |-> {}]
    /\ req = None
    /\ last = Seen({}, {})
    /\ pc = [t \in Threads |-> "idle"]
    /\ local = [t \in Threads |-> Idle]

\* Thread t moves to line `to` with locals `frame`.
Goto(t, to, frame) ==
    /\ pc' = [pc EXCEPT ![t] = to]
    /\ local' = [local EXCEPT ![t] = frame]

\* A thread calls get_cached_pattern(pattern).
BeginGetCachedPattern(t) ==
    /\ pc[t] = "idle"
    /\ \E pattern \in ConcurrentPatterns :
          Goto(t, "gcp_test", [call |-> "get_cached_pattern", pattern |-> pattern])
    /\ UNCHANGED <<_watsonx_client, _pattern_cache, initAttempts, initFailed,
                   compiles, returned, req, last>>

\* Line 41: if pattern not in _pattern_cache
TestPattern(t) ==
    /\ pc[t] = "gcp_test"
    /\ Goto(t, IF local[t].pattern \notin DOMAIN _pattern_cache
               THEN "gcp_compile" ELSE "gcp_return", local[t])
    /\ UNCHANGED <<_watsonx_client, _pattern_cache, initAttempts, initFailed,
                   compiles, returned, req, last>>

\* Line 42: _pattern_cache[pattern] = re.compile(pattern, re.IGNORECASE)
CompilePattern(t) ==
    /\ pc[t] = "gcp_compile"
    /\ _pattern_cache' =
          Stored(_pattern_cache, local[t].pattern,
                 re_compile(local[t].pattern, compiles[local[t].pattern]))
    /\ compiles' = [compiles EXCEPT ![local[t].pattern] = @ + 1]
    /\ Goto(t, "gcp_return", local[t])
    /\ UNCHANGED <<_watsonx_client, initAttempts, initFailed, returned, req, last>>

\* Line 43: return _pattern_cache[pattern]
ReturnPattern(t) ==
    /\ pc[t] = "gcp_return"
    /\ returned' = [returned EXCEPT ![local[t].pattern] =
                        @ \cup {_pattern_cache[local[t].pattern]}]
    /\ Goto(t, "idle", Idle)
    /\ UNCHANGED <<_watsonx_client, _pattern_cache, initAttempts, initFailed,
                   compiles, req, last>>

\* A thread calls get_watsonx_client().
BeginGetWatsonxClient(t) ==
    /\ pc[t] = "idle"
    /\ Goto(t, "gwc_test", [call |-> "get_watsonx_client"])
    /\ UNCHANGED <<_watsonx_client, _pattern_cache, initAttempts, initFailed,
                   compiles, returned, req, last>>

\* Line 15: if _watsonx_client is None; an attempt made now is the
\* (initAttempts + 1)-th.
TestClient(t) ==
    /\ pc[t] = "gwc_test"
    /\ _watsonx_client = None => initAttempts < MaxInitAttempts
    /\ initAttempts' = initAttempts + (IF _watsonx_client = None THEN 1 ELSE 0)
    /\ Goto(t, IF _watsonx_client = None THEN "gwc_construct" ELSE "gwc_return",
            [call |-> "get_watsonx_client", attempt |-> initAttempts + 1])
    /\ UNCHANGED <<_watsonx_client, _pattern_cache, initFailed, compiles,
                   returned, req, last>>

\* Lines 17-29: Credentials(...), then APIClient(credentials) assigned to
\* _watsonx_client, unless one of them raises.
ConstructClient(t) ==
    /\ pc[t] = "gwc_construct"
    /\ \E init \in InitOutcomes :
          /\ _watsonx_client' = IF init \in {"credentials_error", "client_error"}
                                THEN _watsonx_client
                                ELSE APIClient(local[t].attempt)
          /\ Goto(t, IF init \in {"credentials_error", "client_error"}
                     THEN "gwc_except" ELSE "gwc_project",
                  [call |-> "get_watsonx_client", attempt |-> local[t].attempt,
                   init |-> init])
    /\ UNCHANGED <<_pattern_cache, initAttempts, initFailed, compiles,
                   returned, req, last>>

\* Line 30: _watsonx_client.project_id = project_id, on whatever the global
\* holds now; it raises when the assignment fails or the global is None.
SetProjectId(t) ==
    /\ pc[t] = "gwc_project"
    /\ Goto(t, IF local[t].init = "project_id_error" \/ _watsonx_client = None
               THEN "gwc_except" ELSE "gwc_return", local[t])
    /\ last' = IF local[t].init = "project_id_error" \/ _watsonx_client = None
               THEN last
               ELSE Seen(last.initialized \cup {APIClient(local[t].attempt)},
                         last.observed)
    /\ UNCHANGED <<_watsonx_client, _pattern_cache, initAttempts, initFailed,
                   compiles, returned, req>>

\* Lines 32-35: except Exception: _watsonx_client = None
ExceptClient(t) ==
    /\ pc[t] = "gwc_except"
    /\ _watsonx_client' = None
    /\ initFailed' = TRUE
    /\ Goto(t, "gwc_return", local[t])
    /\ UNCHANGED <<_pattern_cache, initAttempts, compiles, returned, req, last>>

\* Line 37: return _watsonx_client
ReturnClient(t) ==
    /\ pc[t] = "gwc_return"
    /\ last' = Seen(last.initialized, last.observed \cup {_watsonx_client})
    /\ Goto(t, "idle", Idle)
    /\ UNCHANGED <<_watsonx_client, _pattern_cache, initAttempts, initFailed,
                   compiles, returned, req>>

NextConc ==
    \E t \in Threads :
        \/ BeginGetCachedPattern(t)
        \/ TestPattern(t)
        \/ CompilePattern(t)
        \/ ReturnPattern(t)
        \/ BeginGetWatsonxClient(t)
        \/ TestClient(t)
        \/ ConstructClient(t)
        \/ SetProjectId(t)
        \/ ExceptClient(t)
        \/ ReturnClient(t)

SpecConc == InitConc /\ [][NextConc]_vars

\* C10: under every interleaving of concurrent get_cached_pattern and
\* get_watsonx_client calls, each pattern is compiled at most once and all
\* callers asking for it get one matcher, and at most one client is
\* constructed and initialised and all callers that get a client get that
\* one.
C10_InitializeOnce ==
    /\ \A pattern \in ConcurrentPatterns :
          /\ compiles[pattern] <= 1
          /\ Cardinality(returned[pattern]) <= 1
    /\ Cardinality(last.initialized) <= 1
    /\ Cardinality(last.observed \ {None}) <= 1

====
